---- MODULE Spec2Model ----
(***************************************************************************)
(* State-machine model of the `StorageValue` generator of                  *)
(* frame/support/src/storage/generator/value.rs: one typed value stored    *)
(* under a 32-byte final key of a byte-addressed key/value store.          *)
(*                                                                         *)
(* The declared value type T is a sequence-shaped Vec<u8> (SCALE: compact  *)
(* length prefix followed by the element bytes); the old format O used by  *)
(* translate is a little-endian u16.  Option<X> is modelled as a sequence  *)
(* of length 0 (None) or 1 (Some).                                         *)
(***************************************************************************)
EXTENDS Integers, Sequences, FiniteSets, TLC

\* ------------------------------------------------------------------ bounds
\* Longest Vec<u8> the callers put, set, push or append.
MaxLen == 2

\* Element values the callers use.
Items == {7, 9}

\* ------------------------------------------------------------------ Option
None == <<>>

Some(x) == <<x>>

is_some(o) == Len(o) = 1

\* ------------------------------------------------------- declared values
\* Two declared values of the same module ("Accounts"): "Total" and "Count".
Values == {"Total", "Count"}

\* Every declaration the key derivation is looked at for: the two above, a
\* "Total" of another module ("Staking"), and the declaration with the two
\* segments of Accounts/Total exchanged (module "Total", value "Accounts").
Declared == Values \cup {"Staking.Total", "Total.Accounts"}

module_prefix(g) ==
  CASE g = "Staking.Total" -> <<83, 116, 97, 107, 105, 110, 103>>
    [] g = "Total.Accounts" -> <<84, 111, 116, 97, 108>>
    [] OTHER -> <<65, 99, 99, 111, 117, 110, 116, 115>>

storage_prefix(g) ==
  CASE g = "Count" -> <<67, 111, 117, 110, 116>>
    [] g = "Total.Accounts" -> <<65, 99, 99, 111, 117, 110, 116, 115>>
    [] OTHER -> <<84, 111, 116, 97, 108>>

\* A deterministic 16-byte hash standing for Twox128.
Twox128(s) ==
  [i \in 1..16 |->
     IF Len(s) = 0 THEN (31 * i) % 256
     ELSE (s[((i - 1) % Len(s)) + 1] + 31 * i + Len(s)) % 256]

\* The key with the two hashes in the wrong order.
final_key_storage_first(g) ==
  Twox128(storage_prefix(g)) \o Twox128(module_prefix(g))

\* final_key[0..16] = Twox128(module_prefix), final_key[16..32] = Twox128(storage_prefix)
storage_value_final_key(g) ==
  Twox128(module_prefix(g)) \o Twox128(storage_prefix(g))

hashed_key(g) == storage_value_final_key(g)

\* The final key of every declared value (a pure function of the two prefixes).
final_key == [g \in Values |-> storage_value_final_key(g)]

Keys == {final_key[g] : g \in Values}

\* ------------------------------------------------------------------- codec
\* All Vec<u8> over Items of length at most n.
SeqsUpTo(n) == UNION {[1..k -> Items] : k \in 0..n}

TValues == SeqsUpTo(MaxLen)

\* Compact<u32>::encode
CompactEncode(n) ==
  IF n < 64 THEN <<4 * n>>
  ELSE IF n < 16384 THEN <<(4 * n + 1) % 256, (4 * n + 1) \div 256>>
  ELSE <<(4 * n + 2) % 256, ((4 * n + 2) \div 256) % 256,
         ((4 * n + 2) \div 65536) % 256, (4 * n + 2) \div 16777216>>

\* Compact<u32>::decode: Some([n, used]) or None when the prefix is malformed.
CompactDecode(b) ==
  IF Len(b) = 0 THEN None
  ELSE LET mode == b[1] % 4 IN
    CASE mode = 0 -> Some([n |-> b[1] \div 4, used |-> 1])
      [] mode = 1 ->
           IF Len(b) < 2 THEN None
           ELSE LET x == (b[1] \div 4) + 64 * b[2] IN
                IF x > 63 THEN Some([n |-> x, used |-> 2]) ELSE None
      [] mode = 2 ->
           IF Len(b) < 4 THEN None
           ELSE LET x == (b[1] \div 4) + 64 * b[2] + 16384 * b[3] + 4194304 * b[4] IN
                IF x > 16383 THEN Some([n |-> x, used |-> 4]) ELSE None
      [] OTHER ->
           IF b[1] \div 4 # 0 \/ Len(b) < 5 THEN None
           ELSE LET x == b[2] + 256 * b[3] + 65536 * b[4] + 16777216 * b[5] IN
                IF x > 1073741823 THEN Some([n |-> x, used |-> 5]) ELSE None

\* <Vec<u8> as Encode>::encode
encode(v) == CompactEncode(Len(v)) \o v

\* <Vec<u8> as Decode>::decode: the prefix, then that many elements; bytes
\* after them are not looked at.
decode(b) ==
  LET p == CompactDecode(b) IN
  IF p = None THEN None
  ELSE IF Len(b) - p[1].used < p[1].n THEN None
  ELSE Some(SubSeq(b, p[1].used + 1, p[1].used + p[1].n))

\* <Vec<u8> as DecodeLength>::len: the prefix alone.
DecodeLength_len(b) ==
  LET p == CompactDecode(b) IN
  IF p = None THEN <<"Err", "malformed length prefix">> ELSE <<"Ok", p[1].n>>

\* <u16 as Decode>::decode, the old format O of translate.
decode_old(b) ==
  IF Len(b) < 2 THEN None ELSE Some(b[1] + 256 * b[2])

\* ---------------------------------------------------------------- unhashed
unhashed_exists(s, key) == s[key] # None

unhashed_get_raw(s, key) == s[key]

unhashed_put_raw(s, key, d) == [s EXCEPT ![key] = Some(d)]

unhashed_kill(s, key) == [s EXCEPT ![key] = None]

\* A payload that does not decode reads as None.
unhashed_get(s, key) ==
  IF s[key] = None THEN None ELSE decode(s[key][1])

unhashed_put(s, key, v) == unhashed_put_raw(s, key, encode(v))

\* ------------------------------------------------------------ QueryAdapter
\* The caller-declared Query type and its two conversions:
\*   "OptionQuery"  Query = Option<T>, both conversions the identity;
\*   "ValueQuery"   Query = T, None reads as `default`, every Query is stored;
\*   "DefaultNone"  Query = T, None reads as `default`, `default` is stored as None;
\*   "EmptyNone"    Query = T, None reads as `default`, the empty Vec is stored
\*                  as None: with a non-empty default the conversions do not
\*                  round-trip on the empty Vec.
AdapterKinds == {"OptionQuery", "ValueQuery", "DefaultNone", "EmptyNone"}

Adapters ==
  {[kind |-> "OptionQuery", default |-> <<>>]}
    \cup {[kind |-> k, default |-> d] : k \in {"ValueQuery", "DefaultNone"},
                                        d \in {<<>>, <<7>>}}
    \cup {[kind |-> "EmptyNone", default |-> <<7>>]}

from_optional_value_to_query(a, v) ==
  IF a.kind = "OptionQuery" THEN v
  ELSE IF v = None THEN a.default ELSE v[1]

from_query_to_optional_value(a, q) ==
  IF a.kind = "OptionQuery" THEN q
  ELSE IF a.kind = "DefaultNone" /\ q = a.default THEN None
  ELSE IF a.kind = "EmptyNone" /\ q = <<>> THEN None
  ELSE Some(q)

\* Every Query value of the adapter over the bounded T.
Queries(a) ==
  IF a.kind = "OptionQuery" THEN {None} \cup {Some(v) : v \in TValues}
  ELSE TValues

\* ---------------------------------------------------------------- closures
\* The closures handed to mutate / try_mutate: what they do to the &mut Query
\* ("keep" it, "assign" q to it, "push" item onto it while there is room) and
\* what they return.
MutActs(a) ==
  {[act |-> "keep", q |-> from_optional_value_to_query(a, None), item |-> 7]}
    \cup {[act |-> "assign", q |-> from_optional_value_to_query(a, ov), item |-> 7] :
            ov \in {None, Some(<<9>>)}}
    \cup {[act |-> "push", q |-> from_optional_value_to_query(a, None), item |-> 7]}

push_query(a, q, i) ==
  IF a.kind = "OptionQuery"
  THEN IF q = None THEN Some(<<i>>)
       ELSE IF Len(q[1]) < MaxLen THEN Some(Append(q[1], i)) ELSE q
  ELSE IF Len(q) < MaxLen THEN Append(q, i) ELSE q

\* The Query the closure leaves in the handle.
call_mut(a, f, q) ==
  CASE f.act = "keep" -> q
    [] f.act = "assign" -> f.q
    [] OTHER -> push_query(a, q, f.item)

\* try_mutate closures: the effect on the handle and the Result they return.
TryMutFns(a) ==
  {[f |-> m, out |-> o] : m \in MutActs(a), o \in {<<"Ok", 1>>, <<"Err", 2>>}}

\* The closures handed to translate, Option<O> -> Option<T>:
\*   "drop"  everything to None;
\*   "dup"   None to None, Some(o) to the two-element Vec of o's high byte;
\*   "wrap"  None to the empty Vec, Some(o) to the one-element Vec of o's high byte.
TranslateFns == {"drop", "dup", "wrap"}

call_translate(f, mo) ==
  CASE f = "drop" -> None
    [] f = "dup" -> IF mo = None THEN None ELSE Some(<<mo[1] \div 256, mo[1] \div 256>>)
    [] OTHER -> IF mo = None THEN Some(<<>>) ELSE Some(<<mo[1] \div 256>>)

\* ------------------------------------------------- storage::StorageValue<T>
\* Each operation maps the store before the call to [st: the store after,
\* ret: what the call returns, fin: Some(x) when a closure was called with x].
exists(g, s) == unhashed_exists(s, final_key[g])

\* get that takes a stored empty Vec for no value.
get_empty_as_absent(a, g, s) ==
  LET value == unhashed_get(s, final_key[g]) IN
  from_optional_value_to_query(a, IF is_some(value) /\ value[1] = <<>> THEN None ELSE value)

get(a, g, s) ==
  LET value == unhashed_get(s, final_key[g]) IN
  from_optional_value_to_query(a, value)

\* try_get that falls back to the empty Vec instead of failing.
try_get_or_default(g, s) ==
  LET value == unhashed_get(s, final_key[g]) IN
  IF is_some(value) THEN <<"Ok", value[1]>> ELSE <<"Ok", <<>>>>

try_get(g, s) ==
  LET value == unhashed_get(s, final_key[g]) IN
  IF is_some(value) THEN <<"Ok", value[1]>> ELSE <<"Err">>

\* translate whose else arm does nothing: a closure result of None leaves the
\* old payload in place.
translate_never_kills(g, s, f) ==
  LET key == final_key[g]
      raw == unhashed_get_raw(s, key)
  IN IF is_some(raw) /\ decode_old(raw[1]) = None
     THEN [st |-> s, ret |-> <<"Err">>, fin |-> None]
     ELSE LET maybe_old == IF is_some(raw) THEN decode_old(raw[1]) ELSE None
              maybe_new == call_translate(f, maybe_old)
          IN [st  |-> IF is_some(maybe_new)
                      THEN unhashed_put_raw(s, key, encode(maybe_new[1]))
                      ELSE s,
              ret |-> <<"Ok", maybe_new>>,
              fin |-> Some(maybe_old)]

\* translate with .ok() in place of ?: a payload that does not decode as O is
\* handed to the closure as None and the closure's answer is stored.
translate_decode_ok(g, s, f) ==
  LET key == final_key[g]
      raw == unhashed_get_raw(s, key)
      maybe_old == IF is_some(raw) THEN decode_old(raw[1]) ELSE None
      maybe_new == call_translate(f, maybe_old)
  IN [st  |-> IF is_some(maybe_new)
              THEN unhashed_put_raw(s, key, encode(maybe_new[1]))
              ELSE unhashed_kill(s, key),
      ret |-> <<"Ok", maybe_new>>,
      fin |-> Some(maybe_old)]

translate(g, s, f) ==
  LET key == final_key[g]
      raw == unhashed_get_raw(s, key)
  IN IF is_some(raw) /\ decode_old(raw[1]) = None
     THEN [st |-> s, ret |-> <<"Err">>, fin |-> None]
     ELSE LET maybe_old == IF is_some(raw) THEN decode_old(raw[1]) ELSE None
              maybe_new == call_translate(f, maybe_old)
          IN [st  |-> IF is_some(maybe_new)
                      THEN unhashed_put_raw(s, key, encode(maybe_new[1]))
                      ELSE unhashed_kill(s, key),
              ret |-> <<"Ok", maybe_new>>,
              fin |-> Some(maybe_old)]

\* put through put_raw: the value's bytes stored without their length prefix.
put_without_prefix(g, s, val) == unhashed_put_raw(s, final_key[g], val)

put(g, s, val) == unhashed_put(s, final_key[g], val)

\* set that stores every Query, the default included, and never deletes.
set_always_puts(a, g, s, maybe_val) ==
  LET ov == from_query_to_optional_value(a, maybe_val) IN
  unhashed_put(s, final_key[g],
               IF is_some(ov) THEN ov[1] ELSE IF a.kind = "OptionQuery" THEN <<>> ELSE maybe_val)

set(a, g, s, maybe_val) ==
  LET ov == from_query_to_optional_value(a, maybe_val) IN
  IF is_some(ov)
  THEN unhashed_put(s, final_key[g], ov[1])
  ELSE unhashed_kill(s, final_key[g])

\* kill through the module's prefix: every value of the module is deleted.
kill_module_prefix(g, s) ==
  [k \in DOMAIN s |->
     IF SubSeq(k, 1, 16) = Twox128(module_prefix(g)) THEN None ELSE s[k]]

\* kill with take's test: only a payload that decodes is deleted.
kill_if_decodable(g, s) ==
  IF is_some(unhashed_get(s, final_key[g])) THEN unhashed_kill(s, final_key[g]) ELSE s

kill(g, s) == unhashed_kill(s, final_key[g])

\* try_mutate without the `if ret.is_ok()` test: the handle is committed
\* whatever the closure returns.
try_mutate_commits_on_err(a, g, s, f) ==
  LET val0 == get(a, g, s)
      val == call_mut(a, f.f, val0)
      ov == from_query_to_optional_value(a, val)
  IN [st  |-> IF is_some(ov) THEN put(g, s, ov[1]) ELSE kill(g, s),
      ret |-> f.out,
      fin |-> Some(val0),
      q   |-> val]

\* try_mutate whose None arm does nothing: a handle that maps to None leaves
\* the old payload in place.
try_mutate_never_kills(a, g, s, f) ==
  LET val0 == get(a, g, s)
      val == call_mut(a, f.f, val0)
      ret == f.out
  IN [st  |-> IF ret[1] = "Ok"
              THEN LET ov == from_query_to_optional_value(a, val) IN
                   IF is_some(ov) THEN put(g, s, ov[1]) ELSE s
              ELSE s,
      ret |-> ret,
      fin |-> Some(val0),
      q   |-> val]

try_mutate(a, g, s, f) ==
  LET val0 == get(a, g, s)
      val == call_mut(a, f.f, val0)
      ret == f.out
  IN [st  |-> IF ret[1] = "Ok"
              THEN LET ov == from_query_to_optional_value(a, val) IN
                   IF is_some(ov) THEN put(g, s, ov[1]) ELSE kill(g, s)
              ELSE s,
      ret |-> ret,
      fin |-> Some(val0),
      q   |-> val]

\* mutate that runs the closure on what get() read and writes nothing back.
mutate_without_commit(a, g, s, f) ==
  LET val0 == get(a, g, s) IN
  [st |-> s, ret |-> 1, fin |-> Some(val0), q |-> call_mut(a, f, val0)]

\* try_mutate(|v| Ok::<R, Never>(f(v))).expect(..): the closure's R is 1.
mutate(a, g, s, f) ==
  LET r == try_mutate(a, g, s, [f |-> f, out |-> <<"Ok", 1>>]) IN
  [st |-> r.st, ret |-> r.ret[2], fin |-> r.fin, q |-> r.q]

\* take that returns the value and forgets to delete it.
take_without_kill(a, g, s) ==
  LET value == unhashed_get(s, final_key[g]) IN
  [st |-> s, ret |-> from_optional_value_to_query(a, value)]

\* take that deletes whenever a payload exists, decodable or not.
take_kills_if_exists(a, g, s) ==
  LET key == final_key[g]
      value == unhashed_get(s, key)
  IN [st  |-> IF unhashed_exists(s, key) THEN unhashed_kill(s, key) ELSE s,
      ret |-> from_optional_value_to_query(a, value)]

\* take that deletes first and reads afterwards: it always converts None.
take_reads_after_kill(a, g, s) ==
  LET key == final_key[g]
      st == IF is_some(unhashed_get(s, key)) THEN unhashed_kill(s, key) ELSE s
  IN [st |-> st, ret |-> from_optional_value_to_query(a, unhashed_get(st, key))]

take(a, g, s) ==
  LET key == final_key[g]
      value == unhashed_get(s, key)
  IN [st  |-> IF is_some(value) THEN unhashed_kill(s, key) ELSE s,
      ret |-> from_optional_value_to_query(a, value)]

\* decode_len that decodes the whole value and counts its elements.
decode_len_full_decode(a, g, s) ==
  LET key == final_key[g]
      k == unhashed_get_raw(s, key)
  IN IF is_some(k)
     THEN IF is_some(decode(k[1])) THEN <<"Ok", Len(decode(k[1])[1])>>
          ELSE <<"Err", "malformed length prefix">>
     ELSE LET ov == from_query_to_optional_value(a, from_optional_value_to_query(a, None))
          IN <<"Ok", IF is_some(ov) THEN Len(ov[1]) ELSE 0>>

decode_len(a, g, s) ==
  LET key == final_key[g]
      k == unhashed_get_raw(s, key)
  IN IF is_some(k) THEN DecodeLength_len(k[1])
     ELSE LET ov == from_query_to_optional_value(a, from_optional_value_to_query(a, None))
          IN <<"Ok", IF is_some(ov) THEN Len(ov[1]) ELSE 0>>

\* sp_io::storage::append(key, item.encode()): the suffix append with the
\* length prefix incremented, existing elements untouched; an absent payload,
\* or one whose length prefix is malformed, becomes the one-element Vec.
sp_io_storage_append(s, key, bytes) ==
  IF s[key] = None THEN [s EXCEPT ![key] = Some(CompactEncode(1) \o bytes)]
  ELSE LET b == s[key][1]
           p == CompactDecode(b)
       IN IF p = None THEN [s EXCEPT ![key] = Some(CompactEncode(1) \o bytes)]
          ELSE [s EXCEPT ![key] =
                  Some(CompactEncode(p[1].n + 1) \o SubSeq(b, p[1].used + 1, Len(b)) \o bytes)]

\* <u8 as Encode>::encode
encode_item(item) == <<item>>

\* append that stores the one-element Vec over whatever is there.
append_overwrites(g, s, item) ==
  unhashed_put(s, final_key[g], <<item>>)

\* append that adds the item's bytes to an existing payload and leaves the
\* length prefix as it was.
append_keeps_prefix(g, s, item) ==
  LET key == final_key[g] IN
  IF s[key] = None THEN [s EXCEPT ![key] = Some(CompactEncode(1) \o encode_item(item))]
  ELSE [s EXCEPT ![key] = Some(s[key][1] \o encode_item(item))]

append(g, s, item) ==
  sp_io_storage_append(s, final_key[g], encode_item(item))

\* ------------------------------------------------------------------- state
VARIABLES
  store,    \* the external key/value store: final key -> Option<payload bytes>
  adapter,  \* the QueryAdapter the values are declared with
  active,   \* the declared value the caller works with; the other one's payload
            \* sits in the same store
  last,     \* the last call: op, g, arg, fin (closure input), ret, q (handle after f)
  prev_put, \* Some(v) when the call before the last one was put(v); else None
  run       \* Some([g, items]) while the calls since g's payload was absent are
            \* exactly append(items[1]), ..., append(items[n]) on g; else None

vars == <<store, adapter, active, last, prev_put, run>>

\* Payloads other code may have left at a final key: the empty payload (no
\* length prefix), a prefix of 2 with one element, a one-element Vec followed
\* by a stray byte, and a proper one-element Vec.
InitPayloads ==
  {None, Some(<<>>), Some(<<8, 7>>), Some(<<4, 7, 9>>), Some(encode(<<9>>))}

\* The length prefix of the payload at g's final key, 0 when there is none.
prefix_len(g, s) ==
  LET raw == unhashed_get_raw(s, final_key[g]) IN
  IF is_some(raw) /\ is_some(CompactDecode(raw[1])) THEN CompactDecode(raw[1])[1].n ELSE 0

Call(op, g, arg, fin, ret, q) ==
  [op |-> op, g |-> g, arg |-> arg, fin |-> fin, ret |-> ret, q |-> q]

\* The call before the one being made becomes the previous call.
TrackPut == prev_put' = IF last.op = "put" THEN Some(last.arg) ELSE None

Init ==
  /\ adapter \in Adapters
  /\ active \in Values
  /\ store \in [Keys -> InitPayloads]
  /\ last = [op |-> "init", g |-> active, arg |-> None, fin |-> None, ret |-> None,
             q |-> None]
  /\ prev_put = None
  /\ run = None

\* ----------------------------------------------------------------- actions
HashedKey(g) ==
  /\ last' = Call("hashed_key", g, None, None, hashed_key(g), None)
  /\ TrackPut
  /\ run' = None
  /\ UNCHANGED <<store, adapter, active>>

Exists(g) ==
  /\ last' = Call("exists", g, None, None, exists(g, store), None)
  /\ TrackPut
  /\ run' = None
  /\ UNCHANGED <<store, adapter, active>>

\* A "self-healing" get: a payload that does not decode is deleted on the way.
Get_self_healing(g) ==
  /\ store' = IF exists(g, store) /\ unhashed_get(store, final_key[g]) = None
              THEN kill(g, store) ELSE store
  /\ last' = Call("get", g, None, None, get(adapter, g, store), None)
  /\ TrackPut
  /\ run' = None
  /\ UNCHANGED <<adapter, active>>

Get(g) ==
  /\ last' = Call("get", g, None, None, get(adapter, g, store), None)
  /\ TrackPut
  /\ run' = None
  /\ UNCHANGED <<store, adapter, active>>

TryGet(g) ==
  /\ last' = Call("try_get", g, None, None, try_get(g, store), None)
  /\ TrackPut
  /\ run' = None
  /\ UNCHANGED <<store, adapter, active>>

Translate(g) ==
  \E f \in TranslateFns :
    LET r == translate(g, store, f) IN
    /\ store' = r.st
    /\ last' = Call("translate", g, f, r.fin, r.ret, None)
    /\ TrackPut
    /\ run' = None
    /\ UNCHANGED <<adapter, active>>

Put(g) ==
  \E val \in TValues :
    /\ store' = put(g, store, val)
    /\ last' = Call("put", g, val, None, None, None)
    /\ TrackPut
    /\ run' = None
    /\ UNCHANGED <<adapter, active>>

Set(g) ==
  \E maybe_val \in Queries(adapter) :
    /\ store' = set(adapter, g, store, maybe_val)
    /\ last' = Call("set", g, maybe_val, None, None, None)
    /\ TrackPut
    /\ run' = None
    /\ UNCHANGED <<adapter, active>>

Kill(g) ==
  /\ store' = kill(g, store)
  /\ last' = Call("kill", g, None, None, None, None)
  /\ TrackPut
  /\ run' = None
  /\ UNCHANGED <<adapter, active>>

Mutate(g) ==
  \E f \in MutActs(adapter) :
    LET r == mutate(adapter, g, store, f) IN
    /\ store' = r.st
    /\ last' = Call("mutate", g, f, r.fin, r.ret, r.q)
    /\ TrackPut
    /\ run' = None
    /\ UNCHANGED <<adapter, active>>

TryMutate(g) ==
  \E f \in TryMutFns(adapter) :
    LET r == try_mutate(adapter, g, store, f) IN
    /\ store' = r.st
    /\ last' = Call("try_mutate", g, f, r.fin, r.ret, r.q)
    /\ TrackPut
    /\ run' = None
    /\ UNCHANGED <<adapter, active>>

Take(g) ==
  LET r == take(adapter, g, store) IN
  /\ store' = r.st
  /\ last' = Call("take", g, None, None, r.ret, None)
  /\ TrackPut
  /\ run' = None
  /\ UNCHANGED <<adapter, active>>

\* The callers stop appending at MaxLen elements.
Append_(g) ==
  \E item \in Items :
    /\ prefix_len(g, store) < MaxLen
    /\ store' = append(g, store, item)
    /\ last' = Call("append", g, item, None, None, None)
    /\ TrackPut
    /\ run' = IF ~exists(g, store) THEN Some([g |-> g, items |-> <<item>>])
              ELSE IF is_some(run) /\ run[1].g = g
                   THEN Some([g |-> g, items |-> Append(run[1].items, item)])
                   ELSE None
    /\ UNCHANGED <<adapter, active>>

DecodeLen(g) ==
  /\ last' = Call("decode_len", g, None, None, decode_len(adapter, g, store), None)
  /\ TrackPut
  /\ run' = run
  /\ UNCHANGED <<store, adapter, active>>

Next ==
  \/ HashedKey(active)
  \/ Exists(active)
  \/ Get(active)
  \/ TryGet(active)
  \/ Translate(active)
  \/ Put(active)
  \/ Set(active)
  \/ Kill(active)
  \/ Mutate(active)
  \/ TryMutate(active)
  \/ Take(active)
  \/ Append_(active)
  \/ DecodeLen(active)

Spec == Init /\ [][Next]_vars

\* ------------------------------------------------------------------ claims
\* The payload at g's final key.
Payload(g) == store[final_key[g]]

\* The store entry a committed Query q leaves: absent when q maps to None,
\* encode(v) when it maps to Some(v).
Committed(q) ==
  LET ov == from_query_to_optional_value(adapter, q) IN
  IF is_some(ov) THEN Some(encode(ov[1])) ELSE None

\* C1: when the closure returns Err(e), try_mutate returns that Err(e) and the
\* whole store, the payload at the final key included, is the same before and
\* after the call, whatever the payload was (absent, decodable, undecodable)
\* and whatever the closure did to the Query handle.
C1_TryMutateErrLeavesStore ==
  [][(last'.op = "try_mutate" /\ last'.arg.out[1] = "Err")
       => (last'.ret = last'.arg.out /\ store' = store)]_vars

\* C1 witness: a failing closure has changed the handle, over a payload that
\* exists and does not decode.
C1_Witness ==
  /\ last.op = "try_mutate"
  /\ last.ret = <<"Err", 2>>
  /\ last.q # last.fin[1]
  /\ is_some(Payload(last.g))
  /\ decode(Payload(last.g)[1]) = None

\* C2: when the closure returns Ok(r), try_mutate returns that Ok(r) and
\* commits the Query q the closure left in the handle (the closure applied to
\* what get() read before the call): the payload afterwards is absent when q
\* maps to None and exactly encode(v2) when q maps to Some(v2).
C2_TryMutateOkCommits ==
  [][(last'.op = "try_mutate" /\ last'.arg.out[1] = "Ok")
       => LET g == last'.g
              q == call_mut(adapter, last'.arg.f,
                            from_optional_value_to_query(adapter,
                                                         unhashed_get(store, final_key[g])))
          IN /\ last'.ret = last'.arg.out
             /\ last'.q = q
             /\ store'[final_key[g]] = Committed(q)]_vars

\* C2 witness: a succeeding closure left a Query that maps to None over a
\* payload that existed before; the payload is gone.
C2_Witness ==
  /\ last.op = "try_mutate"
  /\ last.ret = <<"Ok", 1>>
  /\ last.arg.f.act = "assign"
  /\ from_query_to_optional_value(adapter, last.q) = None
  /\ last.fin[1] # last.q
  /\ Payload(last.g) = None

\* C3: put(v) directly followed by take(): take returns the Query wrapping v
\* and the payload does not exist afterwards.
C3_PutThenTake ==
  [][(last.op = "put" /\ last'.op = "take")
       => (/\ last'.ret = from_optional_value_to_query(adapter, Some(last.arg))
           /\ ~exists(last'.g, store'))]_vars

\* C3 witness: take() has run right after put of a two-element value.
C3_Witness ==
  /\ last.op = "take"
  /\ is_some(prev_put)
  /\ Len(prev_put[1]) = 2
  /\ last.ret = from_optional_value_to_query(adapter, prev_put)

\* C4 as claimed: after take() the payload never exists, an undecodable payload
\* included; and on an absent payload take() returns the Query of None and the
\* payload stays absent.
C4_TakeAlwaysDeletes ==
  [][last'.op = "take"
       => (/\ ~exists(last'.g, store')
           /\ (~exists(last'.g, store)
                 => last'.ret = from_optional_value_to_query(adapter, None)))]_vars

\* C4 amended: take() deletes the payload when it decodes as T; a payload that
\* exists and does not decode is left in place, byte for byte, and take()
\* returns the Query of None; on an absent payload take() returns the Query of
\* None and the payload stays absent.  No other key is touched.
C4_TakeDeletesDecodable ==
  [][last'.op = "take"
       => LET key == final_key[last'.g]
              raw == store[key]
          IN IF is_some(raw) /\ is_some(decode(raw[1]))
             THEN /\ store' = [store EXCEPT ![key] = None]
                  /\ last'.ret = from_optional_value_to_query(adapter, decode(raw[1]))
             ELSE /\ store' = store
                  /\ last'.ret = from_optional_value_to_query(adapter, None)]_vars

\* C4 witness: take() has returned the Query of None and an undecodable
\* payload is still there.
C4_Witness ==
  /\ last.op = "take"
  /\ last.ret = from_optional_value_to_query(adapter, None)
  /\ is_some(Payload(last.g))
  /\ decode(Payload(last.g)[1]) = None

\* C5: set(q) leaves the store put(v) leaves when q maps to Some(v), the
\* payload being encode(v), and the store kill() leaves when q maps to None;
\* so when the default Query maps to None, exists() is false after
\* set(default), whatever was stored before.
C5_SetIsPutOrKill ==
  [][last'.op = "set"
       => LET g == last'.g
              ov == from_query_to_optional_value(adapter, last'.arg)
          IN /\ is_some(ov) => /\ store' = put(g, store, ov[1])
                               /\ store'[final_key[g]] = Some(encode(ov[1]))
             /\ ov = None => /\ store' = kill(g, store)
                             /\ ~exists(g, store')
             /\ (/\ last'.arg = from_optional_value_to_query(adapter, None)
                 /\ from_query_to_optional_value(adapter, last'.arg) = None)
                  => ~exists(g, store')]_vars

\* C5 witness: set(default) has run over a payload put just before, under an
\* adapter whose default maps to None; nothing is stored.
C5_Witness ==
  /\ last.op = "set"
  /\ is_some(prev_put)
  /\ last.arg = from_optional_value_to_query(adapter, None)
  /\ from_query_to_optional_value(adapter, last.arg) = None
  /\ Payload(last.g) = None

\* C6: from an absent payload, after append(item_1), ..., append(item_n)
\* (n >= 1) with no other write or read of the value in between (decode_len
\* aside), decode_len() is Ok(n) and the payload decodes as the whole sequence
\* [item_1, ..., item_n]; after the first append the payload is the length
\* prefix 1 followed by that one element.
C6_AppendRun ==
  is_some(run)
    => LET g == run[1].g
           items == run[1].items
           raw == Payload(g)
       IN /\ Len(items) >= 1
          /\ is_some(raw)
          /\ decode_len(adapter, g, store) = <<"Ok", Len(items)>>
          /\ decode(raw[1]) = Some(items)
          /\ Len(items) = 1
               => /\ raw[1] = <<4, items[1]>>
                  /\ CompactDecode(raw[1]) = Some([n |-> 1, used |-> 1])

\* C6 witness: two different items were appended from absent and decode_len
\* has then answered Ok(2).
C6_Witness ==
  /\ is_some(run)
  /\ run[1].items = <<9, 7>>
  /\ last.op = "decode_len"
  /\ last.ret = <<"Ok", 2>>

\* C7: on an existing payload decode_len() answers from the length prefix
\* alone (Ok(n) for a prefix n, whether or not n elements follow) and fails
\* exactly when the prefix is malformed; on an absent payload it never fails
\* and answers Ok(len(v)) for Some(v) = from_query_to_optional_value(
\* from_optional_value_to_query(None)), Ok(0) when that is None.
C7_DecodeLen ==
  last.op = "decode_len"
    => LET raw == Payload(last.g)
           back == from_query_to_optional_value(adapter,
                     from_optional_value_to_query(adapter, None))
       IN IF is_some(raw)
          THEN /\ (last.ret[1] = "Err") <=> (CompactDecode(raw[1]) = None)
               /\ is_some(CompactDecode(raw[1]))
                    => last.ret = <<"Ok", CompactDecode(raw[1])[1].n>>
          ELSE last.ret = <<"Ok", IF is_some(back) THEN Len(back[1]) ELSE 0>>

\* C7 witness: the payload announces two elements and holds one; decode_len
\* answered Ok(2) although the value does not decode.
C7_Witness ==
  /\ last.op = "decode_len"
  /\ Payload(last.g) = Some(<<8, 7>>)
  /\ decode(<<8, 7>>) = None
  /\ last.ret = <<"Ok", 2>>

\* C8: translate(f) on a payload that decodes as the old-format value o calls
\* f(Some(o)), on an absent payload f(None); when f returns Some(t) the payload
\* afterwards is exactly encode(t) and the call returns Ok(Some(t)); when f
\* returns None the payload afterwards is absent and the call returns Ok(None).
C8_Translate ==
  [][last'.op = "translate"
       => LET key == final_key[last'.g]
              raw == store[key]
          IN (raw = None \/ is_some(decode_old(raw[1])))
               => LET old == IF raw = None THEN None ELSE decode_old(raw[1])
                      new == call_translate(last'.arg, old)
                  IN /\ last'.fin = Some(old)
                     /\ last'.ret = <<"Ok", new>>
                     /\ is_some(new) => store'[key] = Some(encode(new[1]))
                     /\ new = None => (store'[key] = None /\ ~exists(last'.g, store'))]_vars

\* C8 witness: the closure was handed Some(o) for an old value o and the
\* payload is now the encoding of the two-element Vec it returned.
C8_Witness ==
  /\ last.op = "translate"
  /\ last.arg = "dup"
  /\ is_some(last.fin) /\ is_some(last.fin[1])
  /\ last.ret = <<"Ok", Some(<<last.fin[1][1] \div 256, last.fin[1][1] \div 256>>)>>
  /\ Payload(last.g) = Some(encode(last.ret[2][1]))

\* C9: get() always returns a Query: the Query of Some(v) when the payload
\* decodes to v, the Query of None when the payload is absent and when it is
\* present but does not decode.
C9_GetNeverFails ==
  last.op = "get"
    => LET raw == Payload(last.g) IN
       /\ last.ret \in Queries(adapter)
       /\ last.ret = IF is_some(raw) /\ is_some(decode(raw[1]))
                     THEN from_optional_value_to_query(adapter, Some(decode(raw[1])[1]))
                     ELSE from_optional_value_to_query(adapter, None)

\* C9 witness: get() returned the Query of None over a payload that exists and
\* does not decode.
C9_Witness ==
  /\ last.op = "get"
  /\ is_some(Payload(last.g))
  /\ decode(Payload(last.g)[1]) = None
  /\ last.ret = from_optional_value_to_query(adapter, None)

\* C10: try_get() returns Ok(v) exactly when a payload exists and decodes to
\* v, an error exactly when the payload is absent or does not decode, and
\* leaves the store as it was.
C10_TryGet ==
  [][last'.op = "try_get"
       => LET raw == store[final_key[last'.g]]
              ok == is_some(raw) /\ is_some(decode(raw[1]))
          IN /\ store' = store
             /\ ok => last'.ret = <<"Ok", decode(raw[1])[1]>>
             /\ ~ok => last'.ret = <<"Err">>]_vars

\* C10 witness: try_get() failed over a payload that exists and does not
\* decode, and the payload is still there.
C10_Witness ==
  /\ last.op = "try_get"
  /\ last.ret = <<"Err">>
  /\ Payload(last.g) = Some(<<8, 7>>)

\* C11: after put(v) the payload is exactly encode(v), which decodes to v,
\* exists() is true and a get() made next returns the Query of Some(v); after
\* put(v) and then take(), a get() made next returns the Query of None.
C11_PutGetTakeGet ==
  [][/\ last'.op = "put"
          => LET raw == store'[final_key[last'.g]] IN
             /\ raw = Some(encode(last'.arg))
             /\ decode(raw[1]) = Some(last'.arg)
             /\ exists(last'.g, store')
             /\ get(adapter, last'.g, store')
                  = from_optional_value_to_query(adapter, Some(last'.arg))
     /\ (last.op = "put" /\ last'.op = "get")
          => last'.ret = from_optional_value_to_query(adapter, Some(last.arg))
     /\ (is_some(prev_put) /\ last.op = "take" /\ last'.op = "get")
          => last'.ret = from_optional_value_to_query(adapter, None)]_vars

\* C11 witness: get() has run right after put of a two-element value and
\* returned its Query, the payload being its encoding.
C11_Witness ==
  /\ last.op = "get"
  /\ is_some(prev_put)
  /\ prev_put[1] = <<9, 7>>
  /\ last.ret = from_optional_value_to_query(adapter, prev_put)
  /\ Payload(last.g) = Some(<<8, 9, 7>>)

\* C12: kill() never fails and leaves the payload at the final key absent,
\* whatever was there; a second kill() changes nothing: the store after
\* kill(); kill() is the store after one kill().
C12_KillIdempotent ==
  [][/\ last'.op = "kill"
          => /\ last'.ret = None
             /\ ~exists(last'.g, store')
             /\ store' = [store EXCEPT ![final_key[last'.g]] = None]
             /\ kill(last'.g, store') = store'
     /\ (last.op = "kill" /\ last'.op = "kill") => store' = store]_vars

\* C12 witness: kill() has run and the payload is absent while the other
\* declared value still holds its own.
C12_Witness ==
  /\ last.op = "kill"
  /\ Payload(last.g) = None
  /\ \E h \in Values : h # last.g /\ Payload(h) = Some(<<8, 7>>)

\* The stores the writing operations of declared value g can leave from
\* store s, over every argument the callers use.
WrittenStores(g, s) ==
  {put(g, s, v) : v \in TValues}
    \cup {set(adapter, g, s, q) : q \in Queries(adapter)}
    \cup {kill(g, s), take(adapter, g, s).st}
    \cup {mutate(adapter, g, s, f).st : f \in MutActs(adapter)}
    \cup {try_mutate(adapter, g, s, f).st : f \in TryMutFns(adapter)}
    \cup {append(g, s, i) : i \in Items}
    \cup {translate(g, s, f).st : f \in TranslateFns}

\* C13: two declared values with different final keys never alias: whatever
\* operation of one value runs (put, set, kill, mutate, try_mutate, take,
\* append, translate), the payload at the other value's final key is what it
\* was; for the call just made, and for every operation of either value
\* applied to the store as it is.
C13_NoAlias ==
  /\ [](\A g \in Values : \A h \in Values :
          final_key[h] # final_key[g]
            => \A s2 \in WrittenStores(g, store) :
                 s2[final_key[h]] = store[final_key[h]])
  /\ [][\A h \in Values :
          final_key[h] # final_key[last'.g]
            => store'[final_key[h]] = store[final_key[h]]]_vars

\* C13 witness: the two final keys differ, an append has changed the payload
\* of one value, and the other value still holds its undecodable payload.
C13_Witness ==
  /\ last.op = "append"
  /\ is_some(Payload(last.g))
  /\ \E h \in Values :
       /\ final_key[h] # final_key[last.g]
       /\ Payload(h) = Some(<<8, 7>>)
       /\ Payload(h) # Payload(last.g)

\* The name segments of the declarations, and Twox128 telling them apart.
Segments == {module_prefix(g) : g \in Declared} \cup {storage_prefix(g) : g \in Declared}

HashInjective == \A x \in Segments : \A y \in Segments : x # y => Twox128(x) # Twox128(y)

\* C14: the final key is the 32 bytes Twox128(module_prefix) ++
\* Twox128(storage_prefix), in that order, each hash 16 bytes: hashed_key()
\* returns it, equal to storage_value_final_key() and the same on every call
\* (it depends on the two segments only); and with Twox128 injective on the
\* segments, declarations with different (module_prefix, storage_prefix) pairs
\* have different final keys.
C14_FinalKey ==
  last.op = "hashed_key"
    => LET mp == module_prefix(last.g)
           sp == storage_prefix(last.g)
       IN /\ last.ret = Twox128(mp) \o Twox128(sp)
          /\ Len(last.ret) = 32
          /\ \A i \in 1..32 : last.ret[i] \in 0..255
          /\ SubSeq(last.ret, 1, 16) = Twox128(mp)
          /\ SubSeq(last.ret, 17, 32) = Twox128(sp)
          /\ last.ret = storage_value_final_key(last.g)
          /\ hashed_key(last.g) = storage_value_final_key(last.g)
          /\ last.ret \in DOMAIN store
          /\ HashInjective
               => \A a \in Declared : \A b \in Declared :
                    <<module_prefix(a), storage_prefix(a)>>
                        # <<module_prefix(b), storage_prefix(b)>>
                      => storage_value_final_key(a) # storage_value_final_key(b)

\* C14 witness: hashed_key() has returned 32 bytes, the hash tells all the
\* segments apart, and the key differs from the key of the declaration with
\* the two segments exchanged.
C14_Witness ==
  /\ last.op = "hashed_key"
  /\ last.g = "Total"
  /\ HashInjective
  /\ Len(last.ret) = 32
  /\ last.ret # storage_value_final_key("Total.Accounts")
  /\ last.ret # storage_value_final_key("Count")

\* C15: mutate(f) is try_mutate with the closure |q| Ok(f(q)): it returns
\* f's result, and the store it leaves is the store that try_mutate leaves,
\* with the Query f left in the handle always committed (payload encode(v)
\* when it maps to Some(v), absent when it maps to None).
C15_MutateIsTryMutateOk ==
  [][last'.op = "mutate"
       => LET g == last'.g
              t == try_mutate(adapter, g, store, [f |-> last'.arg, out |-> <<"Ok", 1>>])
              q == call_mut(adapter, last'.arg,
                            from_optional_value_to_query(adapter,
                                                         unhashed_get(store, final_key[g])))
          IN /\ last'.ret = 1
             /\ t.ret = <<"Ok", last'.ret>>
             /\ store' = t.st
             /\ last'.q = q
             /\ store'[final_key[g]] = Committed(q)]_vars

\* C15 witness: mutate with a pushing closure has returned the closure's
\* result, the handle changed, and the payload is the encoding of the new
\* two-element value.
C15_Witness ==
  /\ last.op = "mutate"
  /\ last.arg.act = "push"
  /\ last.ret = 1
  /\ last.q # last.fin[1]
  /\ is_some(Payload(last.g))
  /\ Payload(last.g) = Committed(last.q)
  /\ Len(Payload(last.g)[1]) = 3

\* C16: exists(), get(), try_get(), decode_len() and hashed_key() write
\* nothing: the whole store after the call is the store before it, for absent,
\* decodable and undecodable payloads, error results included.
C16_ReadsDoNotWrite ==
  [][last'.op \in {"exists", "get", "try_get", "decode_len", "hashed_key"}
       => store' = store]_vars

\* C16 witness: decode_len() has failed on a payload with no length prefix,
\* and that payload is still in the store.
C16_Witness ==
  /\ last.op = "decode_len"
  /\ last.ret[1] = "Err"
  /\ Payload(last.g) = Some(<<>>)

\* C17: when a payload exists but does not decode as the old format O,
\* translate(f) returns the error, f is not called (no closure argument is
\* recorded), and the store, the payload at the final address included, is
\* byte-identical after the call: still present, neither overwritten nor
\* deleted.
C17_TranslateErrKeepsPayload ==
  [][(/\ last'.op = "translate"
      /\ is_some(store[final_key[last'.g]])
      /\ decode_old(store[final_key[last'.g]][1]) = None)
       => /\ last'.ret = <<"Err">>
          /\ last'.fin = None
          /\ store' = store
          /\ is_some(store'[final_key[last'.g]])
          /\ store'[final_key[last'.g]] = store[final_key[last'.g]]]_vars

\* C17 witness: translate() has failed on the one-byte payload that put() of
\* the empty sequence wrote, too short for O, and the byte is still there.
C17_Witness ==
  /\ last.op = "translate"
  /\ last.ret = <<"Err">>
  /\ last.fin = None
  /\ Payload(last.g) = Some(<<0>>)

\* A payload is a well-formed sequence encoding when it is exactly the encoding
\* of the Vec it decodes to: canonical length prefix, that many elements,
\* nothing after them.
WellFormedVec(p) ==
  is_some(p) /\ is_some(decode(p[1])) /\ encode(decode(p[1])[1]) = p[1]

\* The length decode_len() reports for an absent payload under adapter a.
AbsentLen(a) ==
  LET ov == from_query_to_optional_value(a, from_optional_value_to_query(a, None))
  IN IF is_some(ov) THEN Len(ov[1]) ELSE 0

\* C18 as stated: from an absent or well-formed payload, append(item) makes
\* decode_len() return exactly one more than it returned just before, under
\* every adapter.
C18_AppendAddsOneAlways ==
  [][(/\ last'.op = "append"
      /\ \/ store[final_key[last'.g]] = None
         \/ WellFormedVec(store[final_key[last'.g]]))
       => LET before == decode_len(adapter, last'.g, store)
              after  == decode_len(adapter, last'.g, store')
          IN /\ before[1] = "Ok"
             /\ after = <<"Ok", before[2] + 1>>]_vars

\* C18 amended: from a well-formed payload, append(item) makes decode_len()
\* return exactly one more than just before, and the payload decodes to the old
\* elements followed by the item. From an absent payload decode_len() returns
\* 1 after the append whatever the adapter: that is one more than before only
\* when the adapter's value for an absent payload has length 0; with a default
\* of length k > 0 decode_len() goes from k to 1.
C18_AppendLen ==
  [][last'.op = "append"
       => LET key    == final_key[last'.g]
              before == decode_len(adapter, last'.g, store)
              after  == decode_len(adapter, last'.g, store')
          IN /\ WellFormedVec(store[key])
                  => /\ before = <<"Ok", Len(decode(store[key][1])[1])>>
                     /\ after = <<"Ok", before[2] + 1>>
                     /\ WellFormedVec(store'[key])
                     /\ decode(store'[key][1])
                          = Some(Append(decode(store[key][1])[1], last'.arg))
             /\ store[key] = None
                  => /\ before = <<"Ok", AbsentLen(adapter)>>
                     /\ after = <<"Ok", 1>>
                     /\ store'[key] = Some(encode(<<last'.arg>>))
                     /\ (after[2] = before[2] + 1) <=> (AbsentLen(adapter) = 0)]_vars

\* C18 witness: under an adapter whose default is the one-element sequence,
\* append() has just created the payload from absent; decode_len() returned 1
\* for the absent payload and returns 1 now.
C18_Witness ==
  /\ last.op = "append"
  /\ is_some(run) /\ run[1].g = last.g /\ Len(run[1].items) = 1
  /\ adapter.kind = "ValueQuery" /\ adapter.default = <<7>>
  /\ AbsentLen(adapter) = 1
  /\ decode_len(adapter, last.g, store) = <<"Ok", 1>>

\* The adapter's conversions round-trip on q:
\* from_optional_value_to_query(from_query_to_optional_value(q)) == q.
RoundTrips(a, q) ==
  from_optional_value_to_query(a, from_query_to_optional_value(a, q)) = q

\* The last call committed its handle: any mutate, or a try_mutate whose
\* closure returned Ok.
CommittedCall(c) ==
  \/ c.op = "mutate"
  \/ c.op = "try_mutate" /\ c.ret[1] = "Ok"

\* C19: take() returns exactly the Query get() returns in the store state
\* take() starts from. After a mutate(f), or a try_mutate(f) whose closure
\* returned Ok, that left q in the handle, with the adapter's conversions
\* round-tripping on q, get() in the resulting store returns q, and a get()
\* issued as the next call returns q.
C19_TakeIsGetAndReadYourWrites ==
  [][/\ last'.op = "take" => last'.ret = get(adapter, last'.g, store)
     /\ (CommittedCall(last') /\ RoundTrips(adapter, last'.q))
          => get(adapter, last'.g, store') = last'.q
     /\ (CommittedCall(last) /\ RoundTrips(adapter, last.q) /\ last'.op = "get")
          => last'.ret = last.q]_vars

\* C19 witness: a try_mutate whose closure pushed an item and returned Ok has
\* changed the payload, and get() in this store returns the Query the closure
\* left in the handle.
C19_Witness ==
  /\ last.op = "try_mutate"
  /\ last.ret[1] = "Ok"
  /\ last.arg.f.act = "push"
  /\ last.q # last.fin[1]
  /\ RoundTrips(adapter, last.q)
  /\ get(adapter, last.g, store) = last.q
  /\ Payload(last.g) # None

====
